---------------------------- MODULE Spec2Model ----------------------------
(***************************************************************************)
(* A model of the anagram finder of src/src/main.rs.                       *)
(*                                                                         *)
(* Bytes are naturals (their ASCII codes), byte slices and strings are     *)
(* sequences of bytes.  Option<T> is a record [some, val].                 *)
(*                                                                         *)
(* The Dictionary (a HashMap) is the sequence of its entries in the order  *)
(* its iterator yields them; that order is arbitrary (every permutation is *)
(* an initial state).  The code also compares the ADDRESSES of two keys    *)
(* stored in the table (line 140).  How a bucket's address relates to its  *)
(* place in the iteration order is a property of the standard library the  *)
(* program is built with: the table's iterator walks the buckets by rising *)
(* index, and the buckets lie at rising addresses (hashbrown before 0.8)   *)
(* or at falling addresses (hashbrown 0.8 and later, which stores the data *)
(* in reverse before the control bytes).  The variable layout holds which. *)
(***************************************************************************)
EXTENDS Naturals, Sequences, FiniteSets

VARIABLES
    dictionary,  \* self.dictionary: the entries [key, words] in iteration order
    layout,      \* "ascending" | "descending": bucket addresses along the iteration
    pc,          \* "ready" | "running" | "done", or a pure function's "..._in" | "..._out"
    word,        \* find_anagrams' argument word
    minwords,    \* find_anagrams' argument minwords
    maxwords,    \* find_anagrams' argument maxwords
    stack,       \* the activation records of anagrams_recur, outermost first
    emitted,     \* the sets the sink f was called with, in call order
    args,        \* the arguments of a pure function under test
    rets         \* its results

vars == <<dictionary, layout, pc, word, minwords, maxwords, stack, emitted, args, rets>>

search_vars == <<dictionary, layout, word, minwords, maxwords, stack, emitted>>

-----------------------------------------------------------------------------
(* Bounds of the model *)

\* longest signature (word, pool) given to subtract on its own
MaxSigLen == 3

\* longest raw word given to make_key on its own
MaxWordLen == 3

\* longest word given to find_anagrams
MaxQueryLen == 3

\* largest finite minwords / maxwords given to find_anagrams
MaxWordsArg == 3

\* most lines of the word list
MaxLines == 4

\* std::usize::MAX, the default of maxwords and maxletters.  The code only
\* compares it and subtracts 1 from it; it stands here as the largest number
\* the model checker holds.
USIZE_MAX == 2147483647

-----------------------------------------------------------------------------
(* Option *)

None == [some |-> FALSE, val |-> <<>>]

Some(v) == [some |-> TRUE, val |-> v]

-----------------------------------------------------------------------------
(* subtract, lines 9-25 *)

\* the for loop of lines 13-19 from pool[k] on; st = [i, result]
RECURSIVE subtract_loop(_, _, _, _)
subtract_loop(w, pool, k, st) ==
    IF k > Len(pool) THEN st
    ELSE LET c == pool[k] IN
         IF st.i < Len(w) /\ w[st.i + 1] = c
         THEN subtract_loop(w, pool, k + 1, [i |-> st.i + 1, result |-> st.result])
         ELSE subtract_loop(w, pool, k + 1, [i |-> st.i, result |-> Append(st.result, c)])

\* a subtract that forgets the test of line 21
subtract_unchecked(w, pool) ==
    Some(subtract_loop(w, pool, 1, [i |-> 0, result |-> <<>>]).result)

subtract(w, pool) ==
    LET st == subtract_loop(w, pool, 1, [i |-> 0, result |-> <<>>]) IN
    IF st.i >= Len(w) THEN Some(st.result) ELSE None

-----------------------------------------------------------------------------
(* make_key, lines 27-51 *)

\* Vec::swap_remove(i), i counted from 0: the last element takes the place of
\* element i and the vector shrinks by one
swap_remove(bs, i) ==
    [k \in 1..(Len(bs) - 1) |-> IF k = i + 1 THEN bs[Len(bs)] ELSE bs[k]]

\* the loop of lines 33-47 from index i on
RECURSIVE make_key_loop(_, _)
make_key_loop(bs, i) ==
    IF i >= Len(bs) THEN bs
    ELSE LET c == bs[i + 1] IN
         IF c \in 65..90 THEN make_key_loop([bs EXCEPT ![i + 1] = c + 32], i + 1)
         ELSE IF c \in 97..122 \/ c \in 48..57 THEN make_key_loop(bs, i + 1)
         ELSE make_key_loop(swap_remove(bs, i), i)

\* insert byte c into the sorted sequence s
RECURSIVE insert_sorted(_, _)
insert_sorted(s, c) ==
    IF s = <<>> THEN <<c>>
    ELSE IF c <= Head(s) THEN <<c>> \o s
    ELSE <<Head(s)>> \o insert_sorted(Tail(s), c)

\* slice::sort on bytes
RECURSIVE sort(_)
sort(s) == IF s = <<>> THEN <<>> ELSE insert_sorted(sort(Tail(s)), Head(s))

\* a make_key that steps over the byte swap_remove moved into place
RECURSIVE make_key_loop_skip(_, _)
make_key_loop_skip(bs, i) ==
    IF i >= Len(bs) THEN bs
    ELSE LET c == bs[i + 1] IN
         IF c \in 65..90 THEN make_key_loop_skip([bs EXCEPT ![i + 1] = c + 32], i + 1)
         ELSE IF c \in 97..122 \/ c \in 48..57 THEN make_key_loop_skip(bs, i + 1)
         ELSE make_key_loop_skip(swap_remove(bs, i), i + 1)

make_key_skip(w) ==
    IF \E k \in 1..Len(w) : w[k] >= 128 THEN None
    ELSE Some(sort(make_key_loop_skip(w, 0)))

make_key(w) ==
    IF \E k \in 1..Len(w) : w[k] >= 128 THEN None
    ELSE Some(sort(make_key_loop(w, 0)))

-----------------------------------------------------------------------------
(* Inputs of the pure functions *)

\* all sequences over S of length at most n
RECURSIVE SeqsUpTo(_, _)
SeqsUpTo(S, n) ==
    IF n = 0 THEN {<<>>}
    ELSE LET shorter == SeqsUpTo(S, n - 1) IN
         shorter \cup {Append(s, c) : s \in shorter, c \in S}

IsSorted(s) == \A k \in 1..(Len(s) - 1) : s[k] <= s[k + 1]

\* the bytes signatures are drawn from: a, b, c
SigBytes == {97, 98, 99}

\* the bytes raw words are drawn from: '!', '1', 'A', 'a'
RawBytes == {33, 49, 65, 97}

SortedSigs == {s \in SeqsUpTo(SigBytes, MaxSigLen) : IsSorted(s)}

RawWords == SeqsUpTo(RawBytes, MaxWordLen)

\* number of places of s that hold c
Count(s, c) == Cardinality({k \in 1..Len(s) : s[k] = c})

\* the elements of s
Range(s) == {s[k] : k \in 1..Len(s)}

\* every byte occurs in c at most as often as in p
SubMultiset(c, p) == \A x \in Range(c) : Count(c, x) <= Count(p, x)

-----------------------------------------------------------------------------
(* subtract on its own *)

InitSubtract ==
    /\ pc = "subtract_in"
    /\ args \in {<<c, p>> : c \in SortedSigs, p \in SortedSigs}
    /\ rets = <<>>
    /\ dictionary = <<>> /\ layout = "ascending" /\ word = <<>>
    /\ minwords = 0 /\ maxwords = 0 /\ stack = <<>> /\ emitted = <<>>

CallSubtract ==
    /\ pc = "subtract_in"
    /\ rets' = <<subtract(args[1], args[2])>>
    /\ pc' = "subtract_out"
    /\ UNCHANGED <<search_vars, args>>

SpecSubtract == InitSubtract /\ [][CallSubtract]_vars

(* make_key on its own *)

InitMakeKey ==
    /\ pc = "make_key_in"
    /\ args \in {<<a, b>> : a \in RawWords, b \in RawWords}
    /\ rets = <<>>
    /\ dictionary = <<>> /\ layout = "ascending" /\ word = <<>>
    /\ minwords = 0 /\ maxwords = 0 /\ stack = <<>> /\ emitted = <<>>

CallMakeKey ==
    /\ pc = "make_key_in"
    /\ rets' = <<make_key(args[1]), make_key(args[2])>>
    /\ pc' = "make_key_out"
    /\ UNCHANGED <<search_vars, args>>

SpecMakeKey == InitMakeKey /\ [][CallMakeKey]_vars

-----------------------------------------------------------------------------
(* The Dictionary, lines 53-109 *)

\* ASCII white space, which str::trim strips
WhiteSpace == {9, 10, 11, 12, 13, 32}

\* str::trim
RECURSIVE trim(_)
trim(line) ==
    IF line = <<>> THEN <<>>
    ELSE IF Head(line) \in WhiteSpace THEN trim(Tail(line))
    ELSE IF line[Len(line)] \in WhiteSpace THEN trim(SubSeq(line, 1, Len(line) - 1))
    ELSE line

\* the place of key in the table d, 0 when it has none (HashMap::get_key_value)
get_key_value(d, key) ==
    IF \E j \in 1..Len(d) : d[j].key = key
    THEN CHOOSE j \in 1..Len(d) : d[j].key = key
    ELSE 0

\* dictionary.entry(bs).or_insert_with(|| vec![]).push(word), line 73
entry_push(d, bs, w) ==
    LET j == get_key_value(d, bs) IN
    IF j = 0 THEN Append(d, [key |-> bs, words |-> <<w>>])
    ELSE [d EXCEPT ![j].words = Append(@, w)]

\* the loop of lines 68-75 over the lines of the file, from the table d
RECURSIVE from_dictionary_path(_, _)
from_dictionary_path(lines, d) ==
    IF lines = <<>> THEN d
    ELSE LET w == trim(Head(lines))
             bs == make_key(w)
         IN  IF Len(w) = 0 THEN from_dictionary_path(Tail(lines), d)
             ELSE IF bs.some
             THEN from_dictionary_path(Tail(lines), entry_push(d, bs.val, w))
             ELSE from_dictionary_path(Tail(lines), d)

\* the orders in which a HashMap holding the entries of d may iterate them
IterationOrders(d) ==
    LET n == Len(d)
        perms == {f \in [1..n -> 1..n] : \A i, j \in 1..n : f[i] = f[j] => i = j}
    IN  {[i \in 1..n |-> d[f[i]]] : f \in perms}

\* lines 99-103; retain leaves the entries it keeps where they are
restrict(d, pool) ==
    SelectSeq(d, LAMBDA e : subtract(e.key, pool).some)

\* lines 105-109
restrict_letters(d, minletters, maxletters) ==
    SelectSeq(d, LAMBDA e : Len(e.key) >= minletters /\ Len(e.key) <= maxletters)

\* The address of the bucket the iterator yields i-th, up to a shift: line 140
\* compares two of them.
BucketAddr(d, i) == IF layout = "ascending" THEN i ELSE Len(d) + 1 - i

-----------------------------------------------------------------------------
(* Word lists and queries *)

\* the lines "a", "ab", "ba", "b " (a trailing blank), "!", an empty line and
\* a line of two bytes that are not ASCII
WordFile ==
    << <<97>>, <<97, 98>>, <<98, 97>>, <<98, 32>>, <<33>>, <<>>, <<195, 169>> >>

\* the word list of the concrete scenarios: a, at, tea, eat, ate, tab
ScenarioFile ==
    << <<97>>, <<97, 116>>, <<116, 101, 97>>, <<101, 97, 116>>,
       <<97, 116, 101>>, <<116, 97, 98>> >>

\* the lines of file at the places S, in the file's order
RECURSIVE pick_lines(_, _, _)
pick_lines(file, S, k) ==
    IF k > Len(file) THEN <<>>
    ELSE (IF k \in S THEN <<file[k]>> ELSE <<>>) \o pick_lines(file, S, k + 1)

Files ==
    {pick_lines(WordFile, S, 1) :
        S \in {T \in SUBSET (1..Len(WordFile)) : Cardinality(T) <= MaxLines}}

\* the words given to find_anagrams: the keys over a, b up to MaxQueryLen (main
\* passes a key), the unsorted ba, and the scenarios' tea (as a key and as
\* typed) and xyz
QueryWords ==
    {w \in SeqsUpTo({97, 98}, MaxQueryLen) : IsSorted(w)}
        \cup {<<98, 97>>, <<97, 101, 116>>, <<116, 101, 97>>, <<120, 121, 122>>}

MinWordsArgs == 0..MaxWordsArg

MaxWordsArgs == (0..MaxWordsArg) \cup {USIZE_MAX}

\* the letter bounds restrict_letters is called with
LetterArgs == {<<1, USIZE_MAX>>, <<0, 1>>, <<2, 2>>}

-----------------------------------------------------------------------------
(* find_anagrams and anagrams_recur, lines 111-161 *)

\* a callee that need not find any more words
zero_minwords(m) == 0

\* line 151
new_minwords(m) == IF m = 0 THEN 0 ELSE m - 1

\* a callee that gets the caller's maxwords
same_maxwords(m) == m

\* line 152: maxwords - 1
new_maxwords(m) == m - 1

\* a complete set whatever minwords is
is_complete_any(pool, m) == Len(pool) = 0

\* line 123
is_complete(pool, m) == Len(pool) = 0 /\ m = 0

\* line 140: the key the iterator yields next lies behind the key found
already_searched(d, next, found) == BucketAddr(d, next) > BucketAddr(d, found)

\* the activation record of a call of anagrams_recur; words are the words of
\* the entry the call is recursing on (what its closure captures)
Frame(iter, pool, minw, maxw) ==
    [iter |-> iter, pool |-> pool, minwords |-> minw, maxwords |-> maxw,
     at |-> "entry", words |-> <<>>]

\* f(set) as the call at depth k sees f: the sink itself at depth 1, below it
\* the closure of lines 152-158 of the caller.  The result is the sequence of
\* sets the sink receives.
RECURSIVE call_f(_, _, _)
RECURSIVE call_f_words(_, _, _, _)
call_f(stk, k, set) ==
    IF k = 1 THEN <<set>> ELSE call_f_words(stk, k, set, 1)

call_f_words(stk, k, set, n) ==
    IF n > Len(stk[k - 1].words) THEN <<>>
    ELSE call_f(stk, k - 1, Append(set, stk[k - 1].words[n]))
             \o call_f_words(stk, k, set, n + 1)

\* lines 142-144: f(vec![word]) for each word of words, from the n-th on
RECURSIVE call_f_each(_, _, _, _)
call_f_each(stk, k, words, n) ==
    IF n > Len(words) THEN <<>>
    ELSE call_f(stk, k, <<words[n]>>) \o call_f_each(stk, k, words, n + 1)

Depth == Len(stack)

Top == stack[Depth]

\* the return of the innermost call
Return ==
    /\ stack' = SubSeq(stack, 1, Depth - 1)
    /\ pc' = IF Depth = 1 THEN "done" ELSE "running"

InitSearch(file) ==
    /\ pc = "ready"
    /\ dictionary \in IterationOrders(from_dictionary_path(file, <<>>))
    /\ layout \in {"ascending", "descending"}
    /\ word = <<>> /\ minwords = 0 /\ maxwords = 0
    /\ stack = <<>> /\ emitted = <<>>
    /\ args = <<>> /\ rets = <<>>

Init == \E file \in Files : InitSearch(file)

InitScenario == InitSearch(ScenarioFile)

\* Anagrammer::restrict_letters
RestrictLetters ==
    /\ pc = "ready"
    /\ \E l \in LetterArgs :
         /\ dictionary' = restrict_letters(dictionary, l[1], l[2])
         /\ dictionary' # dictionary
    /\ UNCHANGED <<layout, pc, word, minwords, maxwords, stack, emitted, args, rets>>

\* Anagrammer::find_anagrams, lines 111-115, up to the call of anagrams_recur
FindAnagrams ==
    /\ pc = "ready"
    /\ \E w \in QueryWords, minw \in MinWordsArgs, maxw \in MaxWordsArgs :
         LET pool == sort(w) IN
         /\ word' = w
         /\ minwords' = minw
         /\ maxwords' = maxw
         /\ dictionary' = restrict(dictionary, pool)
         /\ stack' = <<Frame(1, pool, minw, maxw)>>
    /\ pc' = "running"
    /\ UNCHANGED <<layout, emitted, args, rets>>

\* lines 119-121
ReturnInfeasible ==
    /\ pc = "running" /\ Top.at = "entry"
    /\ Top.minwords > Top.maxwords
    /\ Return
    /\ UNCHANGED <<dictionary, layout, word, minwords, maxwords, emitted, args, rets>>

\* lines 123-126
EmitComplete ==
    /\ pc = "running" /\ Top.at = "entry"
    /\ ~(Top.minwords > Top.maxwords)
    /\ is_complete(Top.pool, Top.minwords)
    /\ emitted' = emitted \o call_f(stack, Depth, <<>>)
    /\ Return
    /\ UNCHANGED <<dictionary, layout, word, minwords, maxwords, args, rets>>

\* lines 128-130
ReturnNoWordsLeft ==
    /\ pc = "running" /\ Top.at = "entry"
    /\ ~(Top.minwords > Top.maxwords)
    /\ ~is_complete(Top.pool, Top.minwords)
    /\ Top.maxwords = 0
    /\ Return
    /\ UNCHANGED <<dictionary, layout, word, minwords, maxwords, emitted, args, rets>>

\* lines 132-147
LastWord ==
    /\ pc = "running" /\ Top.at = "entry"
    /\ ~(Top.minwords > Top.maxwords)
    /\ ~is_complete(Top.pool, Top.minwords)
    /\ Top.maxwords = 1
    /\ LET found == get_key_value(dictionary, Top.pool) IN
       emitted' =
         IF found = 0 THEN emitted
         ELSE IF Top.iter > Len(dictionary) THEN emitted
         ELSE IF already_searched(dictionary, Top.iter, found) THEN emitted
         ELSE emitted \o call_f_each(stack, Depth, dictionary[found].words, 1)
    /\ Return
    /\ UNCHANGED <<dictionary, layout, word, minwords, maxwords, args, rets>>

\* the tests of lines 119-132 all fail: the call reaches the loop of line 149
EnterLoop ==
    /\ pc = "running" /\ Top.at = "entry"
    /\ ~(Top.minwords > Top.maxwords)
    /\ ~is_complete(Top.pool, Top.minwords)
    /\ Top.maxwords >= 2
    /\ stack' = [stack EXCEPT ![Depth].at = "loop"]
    /\ UNCHANGED <<dictionary, layout, pc, word, minwords, maxwords, emitted, args, rets>>

\* lines 149-159: the iterator yields an entry; when its key can be taken out
\* of the pool the call recurses with a clone of the advanced iterator
LoopStep ==
    /\ pc = "running" /\ Top.at = "loop"
    /\ Top.iter <= Len(dictionary)
    /\ LET e == dictionary[Top.iter]
           new_pool == subtract(e.key, Top.pool)
           caller == [Top EXCEPT !.iter = Top.iter + 1, !.words = e.words]
       IN  stack' =
             IF new_pool.some
             THEN SubSeq(stack, 1, Depth - 1)
                    \o <<caller,
                         Frame(caller.iter, new_pool.val, new_minwords(Top.minwords),
                               new_maxwords(Top.maxwords))>>
             ELSE [stack EXCEPT ![Depth].iter = Top.iter + 1]
    /\ UNCHANGED <<dictionary, layout, pc, word, minwords, maxwords, emitted, args, rets>>

\* line 149: the iterator is exhausted
LoopEnd ==
    /\ pc = "running" /\ Top.at = "loop"
    /\ Top.iter > Len(dictionary)
    /\ Return
    /\ UNCHANGED <<dictionary, layout, word, minwords, maxwords, emitted, args, rets>>

Next ==
    \/ RestrictLetters
    \/ FindAnagrams
    \/ ReturnInfeasible
    \/ EmitComplete
    \/ ReturnNoWordsLeft
    \/ LastWord
    \/ EnterLoop
    \/ LoopStep
    \/ LoopEnd

Spec == Init /\ [][Next]_vars

\* the program runs on its own thread until it returns
FairSpec == Init /\ [][Next]_vars /\ WF_vars(Next)

SpecScenario == InitScenario /\ [][Next]_vars

-----------------------------------------------------------------------------
(* C5: subtract(c, p) on sorted c and p is Some(r) exactly when c is a      *)
(* sub-multiset of p; then r is sorted, r is p with the bytes of c removed  *)
(* with multiplicity, and len(r) = len(p) - len(c); otherwise it is None.   *)
SubtractCorrect ==
    pc = "subtract_out" =>
        LET c == args[1]
            p == args[2]
            r == rets[1]
        IN  /\ r.some <=> SubMultiset(c, p)
            /\ r.some =>
                 /\ IsSorted(r.val)
                 /\ \A x \in Range(p) \cup Range(c) \cup Range(r.val) :
                        Count(r.val, x) + Count(c, x) = Count(p, x)
                 /\ Len(r.val) + Len(c) = Len(p)
            /\ ~r.some => r = None

\* a candidate of two bytes taken out of a pool that keeps a byte
SubtractSomeReached ==
    /\ pc = "subtract_out"
    /\ rets[1].some
    /\ Len(args[1]) = 2
    /\ Len(rets[1].val) >= 1
    /\ args[1][1] # args[1][2]

-----------------------------------------------------------------------------
\* a-z and 0-9
KeyBytes == (97..122) \cup (48..57)

IsAscii(w) == \A k \in 1..Len(w) : w[k] < 128

\* how often the folded word w holds the key byte c
FoldedCount(w, c) ==
    Count(w, c) + (IF c \in 97..122 THEN Count(w, c - 32) ELSE 0)

SameLetters(a, b) == \A c \in KeyBytes : FoldedCount(a, c) = FoldedCount(b, c)

-----------------------------------------------------------------------------
(* What the sink received *)

\* the signature of a word of the dictionary
KeyOf(w) == make_key(w).val

\* the signatures of the words of a set, in the set's order
KeysOf(set) == [k \in 1..Len(set) |-> KeyOf(set[k])]

\* the bytes of all sequences of seqs, one after the other
RECURSIVE Concat(_)
Concat(seqs) == IF seqs = <<>> THEN <<>> ELSE Head(seqs) \o Concat(Tail(seqs))

\* s and t hold the same bytes equally often
SameCounts(s, t) == \A x \in Range(s) \cup Range(t) : Count(s, x) = Count(t, x)

\* s and t hold the same elements equally often
SameBag(s, t) ==
    /\ Len(s) = Len(t)
    /\ \A k \in 1..Len(s) : Count(s, s[k]) = Count(t, s[k])

IsDictionaryWord(w) ==
    \E j \in 1..Len(dictionary) :
        \E n \in 1..Len(dictionary[j].words) : dictionary[j].words[n] = w

(* C1: every set the sink receives consists of words of the dictionary      *)
(* whose signatures together hold exactly the bytes of the query.           *)
Soundness ==
    \A n \in 1..Len(emitted) :
        /\ \A k \in 1..Len(emitted[n]) : IsDictionaryWord(emitted[n][k])
        /\ SameCounts(Concat(KeysOf(emitted[n])), word)

\* a search for three letters has returned and found a set of two words
SoundnessReached ==
    /\ pc = "done"
    /\ Len(word) = 3
    /\ \E n \in 1..Len(emitted) : Len(emitted[n]) = 2

(* C4: every set the sink receives has at least minwords and at most        *)
(* maxwords words; with minwords > maxwords the sink is never called.       *)
WordCountBound ==
    /\ \A n \in 1..Len(emitted) :
         Len(emitted[n]) >= minwords /\ Len(emitted[n]) <= maxwords
    /\ minwords > maxwords => emitted = <<>>

\* a search for exactly two words has returned with a result, and one whose
\* minwords exceeds maxwords has returned
WordCountBoundReached ==
    /\ pc = "done"
    /\ \/ minwords = 2 /\ maxwords = 2 /\ emitted # <<>>
       \/ minwords = 1 /\ maxwords = USIZE_MAX /\ Len(emitted) >= 2

\* no entry of the index has an empty signature
NoEmptyKey == get_key_value(dictionary, <<>>) = 0

(* C2: the sink never receives two sets whose signatures are the same       *)
(* multiset in a different order.  (Stated for an index without an empty    *)
(* signature: a violation then does not rest on the entries C10 is about.)  *)
NoDuplicatePartitions ==
    NoEmptyKey =>
        \A m, n \in 1..Len(emitted) :
            (m < n /\ SameBag(KeysOf(emitted[m]), KeysOf(emitted[n])))
                => KeysOf(emitted[m]) = KeysOf(emitted[n])

\* the multisets of at most three entries of the dictionary, as rising
\* sequences of places
Selections ==
    {s \in SeqsUpTo(1..Len(dictionary), 3) : IsSorted(s)}

SelectionKeys(s) == [k \in 1..Len(s) |-> dictionary[s[k]].key]

(* C3: when the search has returned, every multiset of dictionary           *)
(* signatures whose size lies in [minwords, maxwords] and whose letters     *)
(* together are the pool has been emitted.  (Stated for the multisets of at *)
(* most three signatures, an index without an empty signature and buckets   *)
(* at rising addresses: a violation then rests neither on the entries C10   *)
(* is about nor on the comparison of line 140 going the other way.)         *)
ExhaustiveEnumeration ==
    (pc = "done" /\ minwords <= maxwords /\ NoEmptyKey /\ layout = "ascending") =>
        \A s \in Selections :
            (/\ Len(s) >= minwords /\ Len(s) <= maxwords
             /\ SameCounts(Concat(SelectionKeys(s)), word))
            => \E n \in 1..Len(emitted) : SameBag(KeysOf(emitted[n]), SelectionKeys(s))

(* C6: find_anagrams with maxwords = 1 and minwords <= 1 on a query whose   *)
(* signature is a key of the index calls the sink exactly once for each     *)
(* spelling stored under that key.                                          *)
SingleWordCompletion ==
    (/\ pc = "done" /\ maxwords = 1 /\ minwords <= 1
     /\ get_key_value(dictionary, sort(word)) # 0)
    => LET words == dictionary[get_key_value(dictionary, sort(word))].words IN
       /\ Len(emitted) = Len(words)
       /\ \A k \in 1..Len(words) : Count(emitted, <<words[k]>>) = Count(words, words[k])

\* the search for two words that are an anagram of tea has returned
TwoWordScenario ==
    /\ pc = "done"
    /\ sort(word) = <<97, 101, 116>>
    /\ minwords = 2 /\ maxwords = 2

(* C7 as stated: the scenario emits exactly one result, the words a and at. *)
TwoWordScenarioPair ==
    TwoWordScenario =>
        /\ Len(emitted) = 1
        /\ SameBag(emitted[1], << <<97>>, <<97, 116>> >>)

(* C7 as amended: with the dictionary a, at, tea, eat, ate, tab, the query  *)
(* tea, minwords = 2 and maxwords = 2, find_anagrams emits nothing.         *)
TwoWordScenarioEmpty == TwoWordScenario => emitted = <<>>

\* the scenario has run on the whole word list: a, at and tea's key survive
\* the restriction to the pool
TwoWordScenarioReached ==
    /\ TwoWordScenario
    /\ Len(dictionary) = 3
    /\ word = <<116, 101, 97>>

\* the recursive calls below the one find_anagrams makes
RecursionDepth == Depth - 1

Min(a, b) == IF a <= b THEN a ELSE b

DepthBounded ==
    pc = "running" => RecursionDepth <= Min(maxwords, Len(dictionary))

\* a step that makes a recursive call: the callee gets maxwords - 1 and an
\* iterator behind the entry just chosen (which the caller's iterator was at)
RecursiveCallDescends ==
    (pc = "running" /\ Len(stack') = Depth + 1) =>
        /\ stack'[Depth + 1].maxwords + 1 = Top.maxwords
        /\ stack'[Depth + 1].iter > Top.iter

(* C9: find_anagrams returns; each recursive call is made with maxwords     *)
(* decreased by one and a cursor strictly after the entry just chosen, and  *)
(* the recursion depth never exceeds min(maxwords, index size).             *)
Termination ==
    /\ (pc = "running") ~> (pc = "done")
    /\ []DepthBounded
    /\ [][RecursiveCallDescends]_vars

\* with maxwords = usize::MAX and an entry of empty signature in the index,
\* the recursion is as deep as the index is large
TerminationReached ==
    /\ pc = "running"
    /\ maxwords = USIZE_MAX
    /\ get_key_value(dictionary, <<>>) # 0
    /\ Len(dictionary) >= 3
    /\ RecursionDepth = Len(dictionary)

(* C10: every recursive call of anagrams_recur receives a pool strictly     *)
(* shorter than its caller's.                                               *)
PoolShrinks ==
    \A k \in 2..Depth : Len(stack[k].pool) < Len(stack[k - 1].pool)

=============================================================================
